---- MODULE Spec2Model ----
(***************************************************************************)
(* picamStreamer.py: the mjpg stream http server for the Raspberry Pi      *)
(* camera.  One CamHandler.do_GET runs per request accepted by the         *)
(* HTTPServer of main(); it either writes the landing page or opens the    *)
(* camera and runs streamDirect / streamAlgo until the stream ends.        *)
(*                                                                         *)
(* Strings that the code takes apart (the request path) are sequences of   *)
(* one-character strings.  Every call the handler makes on a collaborator  *)
(* (camera, algo, comm, cv2, socket, stdout) is appended to `trace' as     *)
(* <<callee, outcome, argument>>.                                          *)
(***************************************************************************)
EXTENDS Integers, Sequences, FiniteSets, TLC

VARIABLES
    server,       \* main(): "init" before serve_forever, then "serving"
    s_comm,       \* module global s_comm: "None" or the ip given to comm.Comm
    s_first,      \* module global s_first
    served,       \* requests accepted so far by serve_forever
    prev,         \* how the stream of the previous request ended
    pc,           \* position of the running handler in do_GET and its callees
    path,         \* self.path
    algostr,      \* do_GET local algostr / streamAlgo parameter algoselector
    cam,          \* do_GET local cam: "None", "falsy" or "handle"
    client,       \* peer of self.wfile: "connected" or "gone"
    hdrbuf,       \* BaseHTTPRequestHandler headers buffer (send_header)
    stream,       \* streamDirect local stream (io.BytesIO): [buf, pos]
    camframe,     \* streamAlgo local camframe / frame: capture number
    value,        \* streamAlgo local value
    jpg,          \* streamAlgo local jpg
    exc,          \* exception in flight, named by the call that raised it
    captured,     \* frames produced by the camera in this session
    openHandles,  \* camera handles opened and not yet stopped, process-wide
    trace,        \* calls made by the running handler, in order
    goneAt,       \* value of `captured' when the peer went away
    history       \* whether trace and captured are kept (history variables)

vars == <<server, s_comm, s_first, served, prev, pc, path, algostr, cam,
          client, hdrbuf, stream, camframe, value, jpg, exc, captured,
          openHandles, trace, goneAt, history>>

----------------------------------------------------------------------------
(* Bounds of the exploration *)

MaxRequests == 2
MaxFrames == 2

(* Sample data *)
JpgSizes == {1, 2}
Values == {0}
None == <<>>
Robots == {"none", "roborio"}

(* Program constants *)
GraceSeconds == 1
PaceMillis == 50
HttpOk == 200

----------------------------------------------------------------------------
(* Request paths *)

MJPG == <<".", "m", "j", "p", "g">>
MJPEG == <<".", "m", "j", "p", "e", "g">>
DIRECT == <<"d", "i", "r", "e", "c", "t">>

Dirs == { <<>>, <<"/">>, <<"/", "a", ".", "b", "/">> }
Names == { <<>>, DIRECT, <<"D", "i", "r", "e", "c", "t">>,
           DIRECT \o <<".", "x">>, <<"c", "a", "m", ".">> \o DIRECT }
Exts == { MJPG, MJPEG, <<>>, <<".", "j", "p", "g">>, MJPG \o <<"?", "q">>,
          <<".", "M", "J", "P", "G">>, <<"m", "j", "p", "g">>, MJPG \o <<"/">> }

\* the request line always carries a path, so the empty one is left out
RequestPaths == { d \o n \o e : d \in Dirs, n \in Names, e \in Exts } \ {<<>>}

----------------------------------------------------------------------------
(* String helpers, as the Python library computes them *)

\* str.endswith(suffix)
EndsWith(s, suffix) ==
    /\ Len(s) >= Len(suffix)
    /\ SubSeq(s, Len(s) - Len(suffix) + 1, Len(s)) = suffix

\* str.rfind(ch) + 1: the position after the last ch, 0 + ... when absent
RFindPlus1(s, ch) ==
    LET hits == { i \in 1..Len(s) : s[i] = ch }
    IN  IF hits = {} THEN 0 ELSE CHOOSE i \in hits : \A j \in hits : j <= i

\* faulty variant: the whole path instead of its final segment
BasenameWhole(p) == p

\* os.path.basename(p): p[p.rfind('/') + 1:]
Basename(p) == SubSeq(p, RFindPlus1(p, "/") + 1, Len(p))

\* faulty variant: split at the last dot (os.path.splitext) instead of the first
SplitLastDot(s) ==
    LET hits == { i \in 1..Len(s) : s[i] = "." }
    IN  IF hits = {} THEN s
        ELSE SubSeq(s, 1, (CHOOSE i \in hits : \A j \in hits : j <= i) - 1)

\* s.split(".")[0]: the part before the first dot, all of s when it has none
SplitDotFirst(s) ==
    LET hits == { i \in 1..Len(s) : s[i] = "." }
    IN  IF hits = {} THEN s
        ELSE SubSeq(s, 1, (CHOOSE i \in hits : \A j \in hits : i <= j) - 1)

\* faulty variant: the suffix is matched without its dot
IsStreamPathLoose(p) ==
    \/ EndsWith(p, <<"m", "j", "p", "g">>)
    \/ EndsWith(p, <<"m", "j", "p", "e", "g">>)

\* line 40
IsStreamPath(p) == EndsWith(p, MJPG) \/ EndsWith(p, MJPEG)

\* line 41
AlgoStr(p) == SplitDotFirst(Basename(p))

\* faulty variant: the comparison the comment above line 40 describes
IsDirectFileName(a) == a = DIRECT \o MJPEG

\* line 53
IsDirect(a) == a = DIRECT

----------------------------------------------------------------------------
(* The response stream and the trace *)

\* lines 25-31
s_mainPage ==
    "\n<html><head>\n<meta content=\"text/html;charset=utf-8\" http-equiv=\"Content-Type\">\n<meta content=\"utf-8\" http-equiv=\"encoding\">\n</head><body>\n<img src=\"/cam.mjpg\"/>\n</body></html>"

Event(callee, outcome, arg) == <<callee, outcome, arg>>

\* send_response(code): the status line goes to the headers buffer
StatusLine(code) == <<"status", code, "\r\n">>

\* send_header(keyword, value): "%s: %s\r\n" goes to the headers buffer
HeaderLine(keyword, val) == <<keyword, val, "\r\n">>

\* faulty variant: the buffer is flushed without the closing empty line
HeaderBlockNoBlank(buf) == [kind |-> "headers", data |-> buf]

\* end_headers(): the buffer, closed by an empty line, is what gets written
HeaderBlock(buf) == [kind |-> "headers", data |-> Append(buf, <<"", "", "\r\n">>)]

Text(t) == [kind |-> "text", data |-> t]
Body(b) == [kind |-> "body", data |-> b]

\* a write on self.wfile reaches the peer, or raises once the peer is gone
WriteOutcome == IF client = "connected" THEN "ok" ELSE "raise"

NoStream == [buf |-> <<>>, pos |-> 0]

\* io.BytesIO.write(data) at the current position
StreamWrite(st, data) ==
    [buf |-> SubSeq(st.buf, 1, st.pos) \o data
               \o SubSeq(st.buf, st.pos + Len(data) + 1, Len(st.buf)),
     pos |-> st.pos + Len(data)]

\* faulty variant: stream.seek(0) without the truncate
SeekOnly(st) == [buf |-> st.buf, pos |-> 0]

\* stream.seek(0); stream.truncate()
SeekTruncate(st) == [buf |-> <<>>, pos |-> 0]

\* stream.getvalue()
GetValue(st) == st.buf

\* the bytes of the n-th frame of the session, `size' of them
FrameBytes(n, size) == [i \in 1..size |-> n]

\* faulty variant: jpg.itemsize instead of jpg.size
JpgItemSize(j) == 1

\* the array cv2.imencode returns for the n-th frame: `size' rows of one
\* uint8 each
JpgArray(n, size) == [rows |-> size, cols |-> 1, data |-> FrameBytes(n, size)]

NoJpg == [rows |-> 0, cols |-> 0, data |-> <<>>]

\* jpg.size: the number of elements of the array
JpgSize(j) == j.rows * j.cols

\* jpg.tostring(): the elements as bytes
JpgToString(j) == j.data

----------------------------------------------------------------------------
(* Initial state: the module has been imported, main() has not run *)

Idle == {"idle", "returned", "raised"}

Init ==
    /\ server = "init"
    /\ s_comm = "None"
    /\ s_first = TRUE
    /\ served = 0
    /\ prev = "none"
    /\ pc = "idle"
    /\ path = <<>>
    /\ algostr = <<>>
    /\ cam = "None"
    /\ client = "connected"
    /\ hdrbuf = <<>>
    /\ stream = NoStream
    /\ camframe = 0
    /\ value = None
    /\ jpg = NoJpg
    /\ exc = "none"
    /\ captured = 0
    /\ openHandles = 0
    /\ trace = <<>>
    /\ goneAt = 0
    /\ history = TRUE

globals == <<server, s_comm, served, prev, goneAt, history>>

\* the trace after one more call, after several more calls
Log(e) == IF history THEN Append(trace, e) ELSE trace
LogAll(es) == IF history THEN trace \o es ELSE trace

\* the camera has another frame within the bound of the exploration
FrameLeft == history => captured < MaxFrames

\* the number of frames produced, after one more
Counted == IF history THEN captured + 1 ELSE captured
locals == <<stream, camframe, value, jpg>>

\* lines 130-147: main() up to serve_forever
Main ==
    /\ server = "init"
    /\ \E robot \in Robots :
         s_comm' = IF robot # "none"
                   THEN (IF robot = "roborio" THEN "10.49.15.2" ELSE robot)
                   ELSE "None"
    /\ server' = "serving"
    /\ UNCHANGED <<s_first, served, prev, pc, path, algostr, cam, client,
                   hdrbuf, stream, camframe, value, jpg, exc, captured,
                   openHandles, trace, goneAt, history>>

\* faulty variant: a threading server, which accepts while a handler still runs
ServerThreaded == TRUE

\* lines 145-147: HTTPServer handles one request at a time; serve_forever
\* is inside the handler until do_GET has returned or raised
ServerFree == pc = "idle"

\* lines 145-147: serve_forever accepts a request and calls do_GET
Accept ==
    /\ server = "serving"
    /\ ServerFree
    /\ served < MaxRequests
    /\ \E p \in RequestPaths : path' = p
    /\ served' = served + 1
    /\ pc' = "do_GET"
    /\ algostr' = <<>>
    /\ cam' = "None"
    /\ client' = "connected"
    /\ hdrbuf' = <<>>
    /\ exc' = "none"
    /\ captured' = 0
    /\ trace' = <<>>
    /\ stream' = NoStream
    /\ camframe' = 0
    /\ value' = None
    /\ jpg' = NoJpg
    /\ goneAt' = 0
    /\ UNCHANGED <<server, s_comm, s_first, prev, openHandles, history>>

\* what the finished session leaves behind for the next one
Outcome ==
    IF \E i \in 1..Len(trace) :
          trace[i][1] = "algo.processFrame" /\ trace[i][2] = "raise"
    THEN "detection" ELSE "other"

\* line 147: do_GET has returned, or has raised into the server's
\* handle_error; the request is shut down and serve_forever goes on
Finish ==
    /\ pc \in {"returned", "raised"}
    /\ prev' = Outcome
    /\ pc' = "idle"
    /\ path' = <<>>
    /\ algostr' = <<>>
    /\ cam' = "None"
    /\ client' = "connected"
    /\ hdrbuf' = <<>>
    /\ exc' = "none"
    /\ captured' = 0
    /\ trace' = <<>>
    /\ stream' = NoStream
    /\ camframe' = 0
    /\ value' = None
    /\ jpg' = NoJpg
    /\ goneAt' = 0
    /\ UNCHANGED <<server, s_comm, s_first, served, openHandles, history>>

\* the peer closes the connection while the handler runs
Disconnect ==
    /\ pc \notin Idle
    /\ client = "connected"
    /\ client' = "gone"
    /\ goneAt' = captured
    /\ UNCHANGED <<server, s_comm, s_first, served, prev, pc, path, algostr,
                   cam, hdrbuf, stream, camframe, value, jpg, exc, captured,
                   openHandles, trace, history>>

----------------------------------------------------------------------------
(* CamHandler.do_GET *)

\* lines 40-44 and 66-68: classify the path, buffer the status and header
DoGet ==
    /\ pc = "do_GET"
    /\ IF IsStreamPath(path)
       THEN /\ algostr' = AlgoStr(path)
            /\ hdrbuf' = <<StatusLine(HttpOk),
                           HeaderLine("Content-type",
                              "multipart/x-mixed-replace; boundary=--jpgboundary")>>
            /\ pc' = "end_headers"
       ELSE /\ algostr' = algostr
            /\ hdrbuf' = <<StatusLine(HttpOk),
                           HeaderLine("Content-type", "text/html")>>
            /\ pc' = "page_headers"
    /\ UNCHANGED <<globals, s_first, path, cam, client, locals, exc, captured,
                   openHandles, trace>>

\* faulty variant: the response headers are left in the buffer
EndHeadersMissing ==
    /\ pc = "end_headers"
    /\ pc' = "grace"
    /\ UNCHANGED <<globals, s_first, path, algostr, cam, client, hdrbuf,
                   locals, exc, captured, openHandles, trace>>

\* line 45: end_headers(), outside the try
EndHeaders ==
    /\ pc = "end_headers"
    /\ trace' = Log(Event("wfile.write", WriteOutcome, HeaderBlock(hdrbuf)))
    /\ hdrbuf' = <<>>
    /\ IF WriteOutcome = "ok"
       THEN pc' = "grace" /\ exc' = exc
       ELSE pc' = "raised" /\ exc' = "wfile.write"
    /\ UNCHANGED <<globals, s_first, path, algostr, cam, client, locals,
                   captured, openHandles>>

\* line 69
PageHeaders ==
    /\ pc = "page_headers"
    /\ trace' = Log(Event("wfile.write", WriteOutcome, HeaderBlock(hdrbuf)))
    /\ hdrbuf' = <<>>
    /\ IF WriteOutcome = "ok"
       THEN pc' = "page_body" /\ exc' = exc
       ELSE pc' = "raised" /\ exc' = "wfile.write"
    /\ UNCHANGED <<globals, s_first, path, algostr, cam, client, locals,
                   captured, openHandles>>

\* lines 70-71
PageBody ==
    /\ pc = "page_body"
    /\ trace' = Log(Event("wfile.write", WriteOutcome, Text(s_mainPage)))
    /\ IF WriteOutcome = "ok"
       THEN pc' = "returned" /\ exc' = exc
       ELSE pc' = "raised" /\ exc' = "wfile.write"
    /\ UNCHANGED <<globals, s_first, path, algostr, cam, client, hdrbuf,
                   locals, captured, openHandles>>

\* lines 46-48: cam = None; time.sleep(1)
Grace ==
    /\ pc = "grace"
    /\ cam' = "None"
    /\ trace' = Log(Event("time.sleep", "ok", GraceSeconds))
    /\ pc' = "open"
    /\ UNCHANGED <<globals, s_first, path, algostr, client, hdrbuf, locals,
                   exc, captured, openHandles>>

\* lines 49-50: picam.PiCam(...) returns a camera, returns a falsy object,
\* or raises
OpenCam ==
    /\ pc = "open"
    /\ \E outcome \in {"ok", "falsy", "raise"} :
         /\ trace' = Log(Event("picam.PiCam", outcome, 0))
         /\ cam' = CASE outcome = "ok" -> "handle"
                     [] outcome = "falsy" -> "falsy"
                     [] OTHER -> cam
         /\ openHandles' = IF outcome = "ok" THEN openHandles + 1 ELSE openHandles
         /\ IF outcome = "raise"
            THEN pc' = "except" /\ exc' = "picam.PiCam"
            ELSE pc' = "check_cam" /\ exc' = exc
    /\ UNCHANGED <<globals, s_first, path, algostr, client, hdrbuf, locals,
                   captured>>

\* Python truth of the local cam
Truthy(c) == c = "handle"

\* lines 51-56: no camera raises; otherwise pick the stream by algostr
CheckCam ==
    /\ pc = "check_cam"
    /\ IF ~Truthy(cam)
       THEN pc' = "except" /\ exc' = "Hey no camera!"
       ELSE /\ exc' = exc
            /\ pc' = IF IsDirect(algostr) THEN "streamDirect" ELSE "streamAlgo"
    /\ UNCHANGED <<globals, s_first, path, algostr, cam, client, hdrbuf,
                   locals, captured, openHandles, trace>>

\* faulty variant: the handler returns from the except clause, before line 61
ExceptReturn ==
    /\ pc = "except"
    /\ trace' = Log(Event("print", "ok", exc))
    /\ exc' = "none"
    /\ pc' = "returned"
    /\ UNCHANGED <<globals, s_first, path, algostr, cam, client, hdrbuf,
                   locals, captured, openHandles>>

\* lines 58-59: except Exception as e: print(e)
Except ==
    /\ pc = "except"
    /\ trace' = Log(Event("print", "ok", exc))
    /\ exc' = "none"
    /\ pc' = "done"
    /\ UNCHANGED <<globals, s_first, path, algostr, cam, client, hdrbuf,
                   locals, captured, openHandles>>

\* line 61
Done ==
    /\ pc = "done"
    /\ trace' = Log(Event("print", "ok", "done streaming ----------------------"))
    /\ pc' = "teardown"
    /\ UNCHANGED <<globals, s_first, path, algostr, cam, client, hdrbuf,
                   locals, exc, captured, openHandles>>

\* faulty variant: cam.stop() whenever cam is not None
StopGuardNotNone(c) == c # "None"

\* line 62: if cam
StopGuard(c) == Truthy(c)

\* lines 62-65: cam.stop() is outside the try; when it raises, the
\* exception leaves do_GET
Teardown ==
    /\ pc = "teardown"
    /\ IF StopGuard(cam)
       THEN \E outcome \in {"ok", "raise"} :
              /\ trace' = Log(Event("cam.stop", outcome, 0))
              /\ openHandles' = IF cam = "handle" THEN openHandles - 1 ELSE openHandles
              /\ IF outcome = "ok"
                 THEN pc' = "returned" /\ exc' = exc
                 ELSE pc' = "raised" /\ exc' = "cam.stop"
       ELSE /\ trace' = Log(Event("print", "ok", "(cam init problem)"))
            /\ pc' = "returned"
            /\ UNCHANGED <<exc, openHandles>>
    /\ UNCHANGED <<globals, s_first, path, algostr, cam, client, hdrbuf,
                   locals, captured>>

----------------------------------------------------------------------------
(* CamHandler.streamDirect *)

\* lines 74-75: print, stream = io.BytesIO()
StreamDirect ==
    /\ pc = "streamDirect"
    /\ trace' = Log(Event("print", "ok", "direct streaming"))
    /\ stream' = NoStream
    /\ path' = <<>>
    /\ pc' = "capture"
    /\ UNCHANGED <<globals, s_first, algostr, cam, client, hdrbuf, camframe,
                   value, jpg, exc, captured, openHandles>>

\* lines 77-79: capture_continuous writes the next jpeg into stream and
\* yields, or is exhausted, or raises
Capture ==
    /\ pc = "capture"
    /\ \/ /\ FrameLeft
          /\ \E size \in JpgSizes :
               /\ stream' = StreamWrite(stream, FrameBytes(captured + 1, size))
               /\ trace' = Log(Event("capture_continuous", "ok",
                                               FrameBytes(captured + 1, size)))
          /\ captured' = Counted
          /\ pc' = "d_boundary"
          /\ exc' = exc
       \/ /\ trace' = Log(Event("capture_continuous", "end", <<>>))
          /\ pc' = "d_finally"
          /\ UNCHANGED <<stream, captured, exc>>
       \/ /\ trace' = Log(Event("capture_continuous", "raise", <<>>))
          /\ pc' = "d_finally"
          /\ exc' = "capture_continuous"
          /\ UNCHANGED <<stream, captured>>
    /\ UNCHANGED <<globals, s_first, path, algostr, cam, client, hdrbuf,
                   camframe, value, jpg, openHandles>>

\* line 80
DirectBoundary ==
    /\ pc = "d_boundary"
    /\ trace' = Log(Event("wfile.write", WriteOutcome, Text("--jpgboundary\n")))
    /\ IF WriteOutcome = "ok"
       THEN pc' = "d_headers" /\ exc' = exc
       ELSE pc' = "d_finally" /\ exc' = "wfile.write"
    /\ UNCHANGED <<globals, s_first, path, algostr, cam, client, hdrbuf,
                   locals, captured, openHandles>>

\* lines 81-83: two send_header calls and end_headers
DirectHeaders ==
    /\ pc = "d_headers"
    /\ trace' = Log(Event("wfile.write", WriteOutcome,
                  HeaderBlock(<<HeaderLine("Content-type", "image/jpeg"),
                                HeaderLine("Content-length", Len(GetValue(stream)))>>)))
    /\ IF WriteOutcome = "ok"
       THEN pc' = "d_body" /\ exc' = exc
       ELSE pc' = "d_finally" /\ exc' = "wfile.write"
    /\ UNCHANGED <<globals, s_first, path, algostr, cam, client, hdrbuf,
                   locals, captured, openHandles>>

\* lines 84-85
DirectBody ==
    /\ pc = "d_body"
    /\ trace' = Log(Event("wfile.write", WriteOutcome, Body(GetValue(stream))))
    /\ IF WriteOutcome = "ok"
       THEN pc' = "d_truncate" /\ exc' = exc
       ELSE pc' = "d_finally" /\ exc' = "wfile.write"
    /\ UNCHANGED <<globals, s_first, path, algostr, cam, client, hdrbuf,
                   locals, captured, openHandles>>

\* lines 86-87
DirectTruncate ==
    /\ pc = "d_truncate"
    /\ stream' = SeekTruncate(stream)
    /\ pc' = "capture"
    /\ UNCHANGED <<globals, s_first, path, algostr, cam, client, hdrbuf,
                   camframe, value, jpg, exc, captured, openHandles, trace>>

\* faulty variant: the finally clause swallows the exception in flight
DirectFinallySwallow ==
    /\ pc = "d_finally"
    /\ stream' = SeekTruncate(stream)
    /\ pc' = "done"
    /\ exc' = "none"
    /\ UNCHANGED <<globals, s_first, path, algostr, cam, client, hdrbuf,
                   camframe, value, jpg, captured, openHandles, trace>>

\* lines 88-90: finally; an exception in flight goes on to do_GET
DirectFinally ==
    /\ pc = "d_finally"
    /\ stream' = SeekTruncate(stream)
    /\ pc' = IF exc = "none" THEN "done" ELSE "except"
    /\ UNCHANGED <<globals, s_first, path, algostr, cam, client, hdrbuf,
                   camframe, value, jpg, exc, captured, openHandles, trace>>

----------------------------------------------------------------------------
(* CamHandler.streamAlgo *)

\* lines 94-95: print, cam.start(); not inside the try of line 98
StreamAlgo ==
    /\ pc = "streamAlgo"
    /\ path' = <<>>
    /\ \E outcome \in {"ok", "raise"} :
         /\ trace' = LogAll(<<Event("print", "ok", <<algostr, " algo streaming">>),
                                Event("cam.start", outcome, 0)>>)
         /\ IF outcome = "ok"
            THEN pc' = "next" /\ exc' = exc
            ELSE pc' = "except" /\ exc' = "cam.start"
    /\ UNCHANGED <<globals, s_first, algostr, cam, client, hdrbuf, locals,
                   captured, openHandles>>

\* faulty variant: a failed pull is retried
CamNextRetry ==
    /\ pc = "next"
    /\ \/ /\ FrameLeft
          /\ captured' = Counted
          /\ camframe' = captured + 1
          /\ trace' = Log(Event("cam.next", "ok", captured + 1))
          /\ pc' = "process"
          /\ exc' = exc
       \/ /\ trace' = Log(Event("cam.next", "raise", 0))
          /\ pc' = "next"
          /\ UNCHANGED <<captured, camframe, exc>>
    /\ UNCHANGED <<globals, s_first, path, algostr, cam, client, hdrbuf,
                   stream, value, jpg, openHandles>>

\* line 97: cam.next() is not inside the try of line 98 either
CamNext ==
    /\ pc = "next"
    /\ \/ /\ FrameLeft
          /\ captured' = Counted
          /\ camframe' = captured + 1
          /\ trace' = Log(Event("cam.next", "ok", captured + 1))
          /\ pc' = "process"
          /\ exc' = exc
       \/ /\ trace' = Log(Event("cam.next", "raise", 0))
          /\ pc' = "except"
          /\ exc' = "cam.next"
          /\ UNCHANGED <<captured, camframe>>
    /\ UNCHANGED <<globals, s_first, path, algostr, cam, client, hdrbuf,
                   stream, value, jpg, openHandles>>

\* lines 99-100: algo.processFrame returns (value, frame) or raises
Process ==
    /\ pc = "process"
    /\ \/ /\ \E v \in {None} \cup { <<x>> : x \in Values } :
               /\ value' = v
               /\ trace' = Log(Event("algo.processFrame", "ok",
                              [frame |-> camframe, selector |-> algostr, value |-> v]))
          /\ pc' = "publish"
          /\ exc' = exc
       \/ /\ trace' = Log(Event("algo.processFrame", "raise",
                              [frame |-> camframe, selector |-> algostr, value |-> None]))
          /\ pc' = "algo_except"
          /\ exc' = "algo.processFrame"
          /\ value' = value
    /\ UNCHANGED <<globals, s_first, path, algostr, cam, client, hdrbuf,
                   stream, camframe, jpg, captured, openHandles>>

\* faulty variant: if value (a zero target counts as absent)
HasValueTruthy(v) == v # None /\ v[1] # 0

\* line 102: value != None
HasValue(v) == v # None

\* lines 101-106: the calls on s_comm, each of which returns or raises
Publish ==
    /\ pc = "publish"
    /\ IF s_comm = "None"
       THEN /\ pc' = "encode"
            /\ UNCHANGED <<trace, exc>>
       ELSE IF HasValue(value)
       THEN \/ /\ trace' = LogAll(<<Event("comm.updateVisionState", "ok", "Acquired"),
                                      Event("comm.UpdateTarget", "ok", value)>>)
               /\ pc' = "encode"
               /\ exc' = exc
            \/ /\ trace' = LogAll(<<Event("comm.updateVisionState", "ok", "Acquired"),
                                      Event("comm.UpdateTarget", "raise", value)>>)
               /\ pc' = "algo_except"
               /\ exc' = "comm.UpdateTarget"
            \/ /\ trace' = Log(Event("comm.updateVisionState", "raise", "Acquired"))
               /\ pc' = "algo_except"
               /\ exc' = "comm.updateVisionState"
       ELSE \/ /\ trace' = Log(Event("comm.updateVisionState", "ok", "Searching"))
               /\ pc' = "encode"
               /\ exc' = exc
            \/ /\ trace' = Log(Event("comm.updateVisionState", "raise", "Searching"))
               /\ pc' = "algo_except"
               /\ exc' = "comm.updateVisionState"
    /\ UNCHANGED <<globals, s_first, path, algostr, cam, client, hdrbuf,
                   locals, captured, openHandles>>

\* faulty variant: a failed encode ends the loop
AfterEncodeBreak(rc) == IF rc THEN "first" ELSE "done"

\* faulty variant: a failed encode still takes the pacing sleep
AfterEncodeSleep(rc) == IF rc THEN "first" ELSE "a_sleep"

\* lines 109-110: if not rc: continue
AfterEncode(rc) == IF rc THEN "first" ELSE "next"

\* lines 108-110: cv2.imencode returns (True, jpg), returns a false rc, or
\* raises
Encode ==
    /\ pc = "encode"
    /\ \/ /\ \E size \in JpgSizes :
               /\ jpg' = JpgArray(camframe, size)
               /\ trace' = Log(Event("cv2.imencode", "ok",
                                               JpgArray(camframe, size)))
          /\ pc' = AfterEncode(TRUE)
          /\ exc' = exc
       \/ /\ jpg' = NoJpg
          /\ trace' = Log(Event("cv2.imencode", "falsy", NoJpg))
          /\ pc' = AfterEncode(FALSE)
          /\ exc' = exc
       \/ /\ trace' = Log(Event("cv2.imencode", "raise", NoJpg))
          /\ pc' = "algo_except"
          /\ exc' = "cv2.imencode"
          /\ jpg' = jpg
    /\ UNCHANGED <<globals, s_first, path, algostr, cam, client, hdrbuf,
                   stream, camframe, value, captured, openHandles>>

\* lines 111-113
First ==
    /\ pc = "first"
    /\ IF s_first
       THEN /\ trace' = Log(Event("print", "ok", JpgSize(jpg)))
            /\ s_first' = FALSE
       ELSE UNCHANGED <<trace, s_first>>
    /\ pc' = "a_boundary"
    /\ UNCHANGED <<globals, path, algostr, cam, client, hdrbuf, locals, exc,
                   captured, openHandles>>

\* line 114
AlgoBoundary ==
    /\ pc = "a_boundary"
    /\ trace' = Log(Event("wfile.write", WriteOutcome, Text("--jpgboundary\n")))
    /\ IF WriteOutcome = "ok"
       THEN pc' = "a_headers" /\ exc' = exc
       ELSE pc' = "algo_except" /\ exc' = "wfile.write"
    /\ UNCHANGED <<globals, s_first, path, algostr, cam, client, hdrbuf,
                   locals, captured, openHandles>>

\* lines 115-117
AlgoHeaders ==
    /\ pc = "a_headers"
    /\ trace' = Log(Event("wfile.write", WriteOutcome,
                  HeaderBlock(<<HeaderLine("Content-type", "image/jpeg"),
                                HeaderLine("Content-length", JpgSize(jpg))>>)))
    /\ IF WriteOutcome = "ok"
       THEN pc' = "a_body" /\ exc' = exc
       ELSE pc' = "algo_except" /\ exc' = "wfile.write"
    /\ UNCHANGED <<globals, s_first, path, algostr, cam, client, hdrbuf,
                   locals, captured, openHandles>>

\* line 118
AlgoBody ==
    /\ pc = "a_body"
    /\ trace' = Log(Event("wfile.write", WriteOutcome, Body(JpgToString(jpg))))
    /\ IF WriteOutcome = "ok"
       THEN pc' = "a_sleep" /\ exc' = exc
       ELSE pc' = "algo_except" /\ exc' = "wfile.write"
    /\ UNCHANGED <<globals, s_first, path, algostr, cam, client, hdrbuf,
                   locals, captured, openHandles>>

\* faulty variant: the loop goes round without pulling a new frame
AlgoSleepNoPull ==
    /\ pc = "a_sleep"
    /\ trace' = Log(Event("time.sleep", "ok", PaceMillis))
    /\ pc' = "process"
    /\ UNCHANGED <<globals, s_first, path, algostr, cam, client, hdrbuf,
                   locals, exc, captured, openHandles>>

\* line 119
AlgoSleep ==
    /\ pc = "a_sleep"
    /\ trace' = Log(Event("time.sleep", "ok", PaceMillis))
    /\ pc' = "next"
    /\ UNCHANGED <<globals, s_first, path, algostr, cam, client, hdrbuf,
                   locals, exc, captured, openHandles>>

\* faulty variant: the handler logs and goes round the loop again
AlgoExceptRetry ==
    /\ pc = "algo_except"
    /\ trace' = LogAll(<<Event("print", "ok", <<"algo exception: ", exc>>),
                           Event("traceback.print_exception", "ok", exc)>>)
    /\ exc' = "none"
    /\ pc' = "next"
    /\ UNCHANGED <<globals, s_first, path, algostr, cam, client, hdrbuf,
                   locals, captured, openHandles>>

\* lines 121-127: log the exception and break; streamAlgo returns
AlgoExcept ==
    /\ pc = "algo_except"
    /\ trace' = LogAll(<<Event("print", "ok", <<"algo exception: ", exc>>),
                           Event("traceback.print_exception", "ok", exc)>>)
    /\ exc' = "none"
    /\ pc' = "done"
    /\ UNCHANGED <<globals, s_first, path, algostr, cam, client, hdrbuf,
                   locals, captured, openHandles>>

----------------------------------------------------------------------------

Next ==
    \/ Main \/ Accept \/ Finish \/ Disconnect
    \/ DoGet \/ EndHeaders \/ PageHeaders \/ PageBody
    \/ Grace \/ OpenCam \/ CheckCam \/ Except \/ Done \/ Teardown
    \/ StreamDirect \/ Capture \/ DirectBoundary \/ DirectHeaders
    \/ DirectBody \/ DirectTruncate \/ DirectFinally
    \/ StreamAlgo \/ CamNext \/ Process \/ Publish \/ Encode \/ First
    \/ AlgoBoundary \/ AlgoHeaders \/ AlgoBody \/ AlgoSleep \/ AlgoExcept

Spec == Init /\ [][Next]_vars

\* the steps of the handler and of the server around it: the thread that
\* runs serve_forever keeps running
Handler ==
    \/ DoGet \/ EndHeaders \/ PageHeaders \/ PageBody
    \/ Grace \/ OpenCam \/ CheckCam \/ Except \/ Done \/ Teardown
    \/ StreamDirect \/ Capture \/ DirectBoundary \/ DirectHeaders
    \/ DirectBody \/ DirectTruncate \/ DirectFinally
    \/ StreamAlgo \/ CamNext \/ Process \/ Publish \/ Encode \/ First
    \/ AlgoBoundary \/ AlgoHeaders \/ AlgoBody \/ AlgoSleep \/ AlgoExcept
    \/ Finish

\* the same program without its history variables, so that a stream of any
\* length is a finite-state loop
InitLive ==
    /\ server = "init"
    /\ s_comm = "None"
    /\ s_first = TRUE
    /\ served = 0
    /\ prev = "none"
    /\ pc = "idle"
    /\ path = <<>>
    /\ algostr = <<>>
    /\ cam = "None"
    /\ client = "connected"
    /\ hdrbuf = <<>>
    /\ stream = NoStream
    /\ camframe = 0
    /\ value = None
    /\ jpg = NoJpg
    /\ exc = "none"
    /\ captured = 0
    /\ openHandles = 0
    /\ trace = <<>>
    /\ goneAt = 0
    /\ history = FALSE

LiveSpec == InitLive /\ [][Next]_vars /\ WF_vars(Handler)

----------------------------------------------------------------------------
(* Reading the trace *)

Ended == pc \in {"returned", "raised"}

Calls(callee) == { i \in 1..Len(trace) : trace[i][1] = callee }
CallsWith(callee, outcome) ==
    { i \in Calls(callee) : trace[i][2] = outcome }

Last(S) == CHOOSE i \in S : \A j \in S : j <= i

Writes == Calls("wfile.write")
BodyWrites == { i \in Writes : trace[i][3].kind = "body" }
TextWrites == { i \in Writes : trace[i][3].kind = "text" }
HeaderWrites == { i \in Writes : trace[i][3].kind = "headers" }

\* the header block of a multipart part (not the one of the response)
PartHeaderWrites ==
    { i \in HeaderWrites : trace[i][3].data[1][1] = "Content-type"
                           /\ trace[i][3].data[1][2] = "image/jpeg" }

\* the value of the Content-length line of the header block written at i
ContentLength(i) ==
    LET lines == trace[i][3].data
        k == CHOOSE k \in 1..Len(lines) : lines[k][1] = "Content-length"
    IN  lines[k][2]

\* the jpeg buffers the camera or the encoder has produced
Jpegs == CallsWith("capture_continuous", "ok") \cup CallsWith("cv2.imencode", "ok")

\* the bytes of the jpeg produced by the call at k
JpegBytes(k) ==
    IF trace[k][1] = "cv2.imencode" THEN trace[k][3].data ELSE trace[k][3]

----------------------------------------------------------------------------
(* C1: in every streaming session cam.stop() is called at most once, never
   without a successful picam.PiCam() before it, and once do_GET is over it
   has been called exactly once if the open succeeded and not at all if it
   did not, whichever way the session ended. *)
C1_CloseOncePerOpen ==
    LET opens == CallsWith("picam.PiCam", "ok")
        stops == Calls("cam.stop")
    IN  /\ Cardinality(opens) <= 1
        /\ Cardinality(stops) <= Cardinality(opens)
        /\ \A i \in stops : \E j \in opens : j < i
        /\ Ended => Cardinality(stops) = Cardinality(opens)

\* a session that lost its client in mid-stream has stopped its camera once
C1_Witness ==
    /\ Ended
    /\ CallsWith("wfile.write", "raise") # {}
    /\ BodyWrites # {}
    /\ Cardinality(CallsWith("picam.PiCam", "ok")) = 1
    /\ Cardinality(Calls("cam.stop")) = 1

(* C2: at most one camera handle is open in the process at any time. *)
C2_OneHandle == openHandles <= 1

\* a second session holds the camera after an earlier one held it
C2_Witness ==
    /\ served = 2
    /\ prev = "detection"
    /\ openHandles = 1
    /\ cam = "handle"

\* p ends in .mjpg or .mjpeg
HasStreamSuffix(p) ==
    \E q \in { SubSeq(p, 1, n) : n \in 0..Len(p) } :
        p = q \o MJPG \/ p = q \o MJPEG

\* s is the final segment of p up to its first dot
IsStem(p, s) ==
    \E i \in 0..Len(p), j \in 0..Len(p) :
        /\ i <= j
        /\ s = SubSeq(p, i + 1, j)
        /\ i = 0 \/ p[i] = "/"
        /\ \A k \in (i + 1)..Len(p) : p[k] # "/"
        /\ \A k \in (i + 1)..j : p[k] # "."
        /\ j = Len(p) \/ p[j + 1] = "."

(* C3: a request whose path ends in .mjpg or .mjpeg is streamed, any other
   gets the landing page; the stream is the direct one exactly when the
   stem of the path is "direct", and otherwise the algo stream with the
   stem as its selector. *)
C3_Classification ==
    /\ pc = "page_headers" => ~HasStreamSuffix(path)
    /\ pc = "end_headers" => HasStreamSuffix(path) /\ IsStem(path, algostr)
    /\ pc = "streamDirect" => HasStreamSuffix(path) /\ IsStem(path, DIRECT)
    /\ pc = "streamAlgo" =>
          /\ HasStreamSuffix(path)
          /\ ~IsStem(path, DIRECT)
          /\ IsStem(path, algostr)

\* /a.b/direct.x.mjpg is streamed directly
C3_Witness ==
    /\ pc = "streamDirect"
    /\ path = <<"/", "a", ".", "b", "/">> \o DIRECT \o <<".", "x">> \o MJPG

(* C4: every jpeg body written follows a part header whose Content-length
   is the number of bytes of that body, is the jpeg produced last, and
   belongs to a later frame than every body written before it. *)
C4_LengthAndOrder ==
    LET bodies == BodyWrites
        headers == PartHeaderWrites
        jpegs == Jpegs
    IN  \A i \in bodies :
            /\ i - 1 \in headers
            /\ trace[i - 1][2] = "ok"
            /\ ContentLength(i - 1) = Len(trace[i][3].data)
            /\ { k \in jpegs : k < i } # {}
            /\ JpegBytes(Last({ k \in jpegs : k < i })) = trace[i][3].data
            /\ \A j \in bodies :
                  j < i => trace[j][3].data[1] < trace[i][3].data[1]

\* a two-byte part after a one-byte part, both delivered
C4_Witness ==
    \E i, j \in BodyWrites :
        /\ i < j
        /\ trace[i][2] = "ok" /\ trace[j][2] = "ok"
        /\ Len(trace[i][3].data) = 2
        /\ Len(trace[j][3].data) = 1

\* the detections made with the control channel configured whose
\* publication is over
Published ==
    { i \in CallsWith("algo.processFrame", "ok") :
         s_comm # "None" /\ (i < Len(trace) \/ pc # "publish") }

(* C5 as stated: each iteration with a value calls updateVisionState
   ("Acquired") and UpdateTarget(value), each iteration without one calls
   updateVisionState("Searching") only. *)
C5_BothInvoked ==
    \A i \in Published :
        IF trace[i][3].value # None
        THEN /\ i + 2 <= Len(trace)
             /\ trace[i + 1][1] = "comm.updateVisionState"
             /\ trace[i + 1][3] = "Acquired"
             /\ trace[i + 2][1] = "comm.UpdateTarget"
             /\ trace[i + 2][3] = trace[i][3].value
        ELSE /\ i + 1 <= Len(trace)
             /\ trace[i + 1][1] = "comm.updateVisionState"
             /\ trace[i + 1][3] = "Searching"
             /\ i + 2 <= Len(trace) => trace[i + 2][1] # "comm.UpdateTarget"

(* C5, amended: each iteration with a value calls updateVisionState
   ("Acquired") and, when that call returns, UpdateTarget(value); each
   iteration without one calls updateVisionState("Searching") only; and
   UpdateTarget is called nowhere else. *)
C5_PublishPerIteration ==
    /\ \A i \in Published :
          /\ i + 1 <= Len(trace)
          /\ trace[i + 1][1] = "comm.updateVisionState"
          /\ IF trace[i][3].value # None
             THEN /\ trace[i + 1][3] = "Acquired"
                  /\ trace[i + 1][2] = "ok" =>
                        /\ i + 2 <= Len(trace)
                        /\ trace[i + 2][1] = "comm.UpdateTarget"
                        /\ trace[i + 2][3] = trace[i][3].value
             ELSE /\ trace[i + 1][3] = "Searching"
                  /\ i + 2 <= Len(trace) => trace[i + 2][1] # "comm.UpdateTarget"
    /\ \A k \in Calls("comm.UpdateTarget") :
          /\ k > 2
          /\ k - 2 \in Published
          /\ trace[k - 2][3].value # None
          /\ trace[k - 1][1] = "comm.updateVisionState"
          /\ trace[k - 1][2] = "ok"

\* one session publishes a target for one frame and "Searching" for another
C5_Witness ==
    /\ CallsWith("comm.UpdateTarget", "ok") # {}
    /\ \E i \in CallsWith("comm.updateVisionState", "ok") :
          trace[i][3] = "Searching"

(* C6: a session whose algostr is "direct" never calls algo.processFrame,
   comm.updateVisionState or comm.UpdateTarget, with or without s_comm. *)
C6_DirectIsSilent ==
    algostr = DIRECT =>
        /\ Calls("algo.processFrame") = {}
        /\ Calls("comm.updateVisionState") = {}
        /\ Calls("comm.UpdateTarget") = {}

\* a direct session with the control channel configured has sent two frames
C6_Witness ==
    /\ algostr = DIRECT
    /\ s_comm # "None"
    /\ Cardinality(CallsWith("capture_continuous", "ok")) = 2
    /\ Cardinality({ i \in BodyWrites : trace[i][2] = "ok" }) = 2

\* the calls of the iteration that the call at i belongs to, up to i
SameIteration(i) ==
    LET pulls == Calls("cam.next")
    IN  { k \in 1..i : \A n \in pulls : n <= k \/ n > i }

(* C7: after cv2.imencode has returned a false rc the session is not over:
   nothing was written in that iteration and the next call is cam.next(). *)
C7_EncodeFailureSkips ==
    \A i \in CallsWith("cv2.imencode", "falsy") :
        /\ SameIteration(i) \cap Writes = {}
        /\ IF i = Len(trace)
           THEN pc = "next"
           ELSE trace[i + 1][1] = "cam.next"

\* a frame is delivered after the encoding of the frame before it failed
C7_Witness ==
    \E i \in CallsWith("cv2.imencode", "falsy") :
        \E j \in BodyWrites : i < j /\ trace[j][2] = "ok"

(* C8: after algo.processFrame has raised, the session pulls, processes,
   publishes, encodes and writes nothing more; once do_GET is over the
   camera has been stopped, after the failure and once; and the server
   goes on to the next request. *)
C8_DetectionFailureEndsSession ==
    /\ \A i \in CallsWith("algo.processFrame", "raise") :
          /\ \A j \in (i + 1)..Len(trace) :
                trace[j][1] \in {"print", "traceback.print_exception", "cam.stop"}
          /\ Ended => /\ Cardinality(Calls("cam.stop")) = 1
                      /\ \A k \in Calls("cam.stop") : k > i
                      /\ ENABLED Finish
          /\ server = "serving"
    /\ prev = "detection" /\ pc = "idle" /\ served < MaxRequests => ENABLED Accept

\* the request after a detection failure gets a frame
C8_Witness ==
    /\ served = 2
    /\ prev = "detection"
    /\ \E j \in BodyWrites : trace[j][2] = "ok"

(* C9: when picam.PiCam raises or returns a falsy object, nothing but the
   response headers is ever written, neither stream function is entered,
   cam.stop() is not called, and do_GET returns. *)
C9_AcquisitionFailure ==
    \A i \in CallsWith("picam.PiCam", "raise") \cup CallsWith("picam.PiCam", "falsy") :
        /\ Writes = {1}
        /\ trace[1][2] = "ok"
        /\ trace[1][3].kind = "headers"
        /\ trace[1][3].data[1][1] = "status"
        /\ \A j \in (i + 1)..Len(trace) : trace[j][1] = "print"
        /\ Calls("cam.stop") = {}
        /\ pc \in {"check_cam", "except", "done", "teardown", "returned"}

\* do_GET has returned after picam.PiCam gave a falsy object
C9_Witness ==
    /\ pc = "returned"
    /\ CallsWith("picam.PiCam", "falsy") # {}

(* C10: a cam.stop() that raises is logged and does not leave do_GET. *)
C10_ReleaseNeverRaises ==
    \A i \in CallsWith("cam.stop", "raise") :
        /\ pc # "raised"
        /\ \E j \in Calls("print") : j > i


----------------------------------------------------------------------------
\* the failed writes of a part: a write can only fail on a part once the
\* camera is open
PartWriteFailed ==
    { i \in CallsWith("wfile.write", "raise") :
        CallsWith("picam.PiCam", "ok") # {} }

\* the handler is past the except clauses
PastExcept == pc \in {"done", "teardown", "returned", "raised"}

(* C11, as stated: a failed write of a part ends the session silently in
   both modes; nothing is printed about the exception and no traceback is
   printed. *)
C11_SilentDisconnect ==
    \A i \in PartWriteFailed :
        /\ Calls("traceback.print_exception") = {}
        /\ algostr = DIRECT =>
             \A j \in Calls("print") : j > i => trace[j][3] # "wfile.write"

(* C11, amended: a failed write of a part ends the session (no later write,
   no later frame) and the session goes on to the normal completion message
   and the teardown, but the failure is logged: Direct mode prints the
   exception (line 59), Algo mode prints "algo exception: ..." and the
   traceback (lines 122-126). *)
C11_DisconnectIsLogged ==
    \A i \in PartWriteFailed :
        /\ \A j \in Writes \cup Calls("cam.next") \cup Calls("capture_continuous") :
              j <= i
        /\ PastExcept =>
             IF algostr = DIRECT
             THEN /\ Len(trace) > i
                  /\ trace[i + 1][1] = "print"
                  /\ trace[i + 1][3] = "wfile.write"
                  /\ Calls("traceback.print_exception") = {}
             ELSE /\ Len(trace) > i + 1
                  /\ trace[i + 1][1] = "print"
                  /\ trace[i + 1][3] = <<"algo exception: ", "wfile.write">>
                  /\ trace[i + 2] = Event("traceback.print_exception", "ok",
                                          "wfile.write")
        /\ Ended =>
             /\ \E j \in Calls("print") :
                   j > i /\ trace[j][3] = "done streaming ----------------------"
             /\ \E j \in Calls("cam.stop") : j > i

\* a Direct session that wrote a part, lost its client and is over
C11_Witness ==
    /\ Ended
    /\ algostr = DIRECT
    /\ PartWriteFailed # {}
    /\ \E i \in BodyWrites : trace[i][2] = "ok"


----------------------------------------------------------------------------
\* the calls of the Algo frame loop (steps 1-5 of an iteration and the pacing)
LoopCallees ==
    {"cam.next", "algo.processFrame", "comm.updateVisionState",
     "comm.UpdateTarget", "cv2.imencode", "wfile.write", "time.sleep"}

\* the session is in streamAlgo or has been through it
AlgoSession == Calls("cam.start") # {}

\* the calls of the frame loop that raised
LoopFailures ==
    IF ~AlgoSession THEN {}
    ELSE LET start == CHOOSE i \in Calls("cam.start") : TRUE
         IN  { i \in (start + 1)..Len(trace) :
                 trace[i][1] \in LoopCallees /\ trace[i][2] = "raise" }

(* C12: in an Algo session, once a call of the loop has raised (cam.next,
   algo.processFrame, an s_comm call, cv2.imencode, a write of a part) no
   later call of the loop is made, so no later iteration and no later part;
   the handler is then on its way to the teardown, and when do_GET is over
   cam.stop() has been called after the failure. *)
C12_FailureEndsLoop ==
    \A i \in LoopFailures :
        /\ \A j \in (i + 1)..Len(trace) : trace[j][1] \notin LoopCallees
        /\ pc \in {"except", "algo_except", "done", "teardown",
                   "returned", "raised"}
        /\ Ended => \E j \in Calls("cam.stop") : j > i

\* cam.next() raised after a part had been written, and the session is over
C12_Witness ==
    /\ Ended
    /\ \E i \in LoopFailures : trace[i][1] = "cam.next"
    /\ \E i \in BodyWrites : trace[i][2] = "ok"
    /\ Calls("cam.stop") # {}


----------------------------------------------------------------------------
(* C13: once the client of an Algo session is gone, the loop pulls at most
   one more frame (goneAt is the number of frames pulled when the client
   went away). *)
C13_AtMostOneFrameLate ==
    (AlgoSession /\ client = "gone") => captured - goneAt <= 1


----------------------------------------------------------------------------
\* s is the final segment of p with its extension (what follows the last
\* dot of the segment) stripped
IsRoot(p, s) ==
    \E i \in 0..Len(p), j \in 0..Len(p) :
        /\ i <= j
        /\ s = SubSeq(p, i + 1, j)
        /\ i = 0 \/ p[i] = "/"
        /\ \A k \in (i + 1)..Len(p) : p[k] # "/"
        /\ \/ j = Len(p) /\ \A k \in (i + 1)..j : p[k] # "."
           \/ /\ j < Len(p)
              /\ p[j + 1] = "."
              /\ \A k \in (j + 2)..Len(p) : p[k] # "."

(* C14, as stated: the selector of a streaming path is its final segment
   with the extension stripped, also when the file name has several dots;
   "direct" selects the direct stream and any other selector the algo
   stream. *)
C14_ExtensionStripped ==
    /\ pc = "end_headers" => IsRoot(path, algostr)
    /\ pc = "streamDirect" => IsRoot(path, DIRECT)
    /\ pc = "streamAlgo" => IsRoot(path, algostr) /\ ~IsRoot(path, DIRECT)

(* C14, amended: the selector of a streaming path is its final segment up
   to the first dot; "direct" selects the direct stream, and any other
   selector is what every algo.processFrame call of the session receives,
   unchanged. *)
C14_SelectorIsFirstStem ==
    /\ pc \in {"end_headers", "streamDirect", "streamAlgo"} =>
          IsStem(path, algostr)
    /\ pc = "streamDirect" => algostr = DIRECT
    /\ pc = "streamAlgo" => algostr # DIRECT
    /\ Calls("capture_continuous") # {} => algostr = DIRECT
    /\ \A i \in Calls("algo.processFrame") :
          /\ algostr # DIRECT
          /\ trace[i][3].selector = algostr

\* a frame has been processed with the selector "cam", which only the
\* paths .../cam.direct.mjpg and .../cam.direct.mjpeg give
C14_Witness ==
    \E i \in CallsWith("algo.processFrame", "ok") :
        trace[i][3].selector = <<"c", "a", "m">>


----------------------------------------------------------------------------
\* the header lines of a part of n bytes, each line ended by eol
PartHeaders(n, eol) ==
    << <<"Content-type", "image/jpeg", eol>>,
       <<"Content-length", n, eol>>,
       <<"", "", eol>> >>

\* every write of a streaming session after the response headers (the
\* first call of the handler) belongs to a part: a boundary line ended by
\* a line feed that header lines follow at once, header lines and an empty
\* line ended by eol that follow a boundary at once and that the body
\* follows at once, or a body that follows its headers at once and has as
\* many bytes as their Content-length line says
Framing(eol) ==
    CallsWith("picam.PiCam", "ok") # {} =>
        \A i \in 2..Len(trace) :
            trace[i][1] = "wfile.write" =>
                LET w == trace[i][3]
                    before == trace[i - 1]
                    delivered == trace[i][2] = "ok" /\ Len(trace) > i
                IN  CASE w.kind = "text" ->
                           /\ w.data = "--jpgboundary\n"
                           /\ delivered =>
                                 /\ trace[i + 1][1] = "wfile.write"
                                 /\ trace[i + 1][3].kind = "headers"
                      [] w.kind = "headers" ->
                           /\ Len(w.data) = 3
                           /\ w.data = PartHeaders(w.data[2][2], eol)
                           /\ before[1] = "wfile.write"
                           /\ before[2] = "ok"
                           /\ before[3].kind = "text"
                           /\ delivered =>
                                 /\ trace[i + 1][1] = "wfile.write"
                                 /\ trace[i + 1][3].kind = "body"
                      [] OTHER ->
                           /\ w.kind = "body"
                           /\ before[1] = "wfile.write"
                           /\ before[2] = "ok"
                           /\ before[3].kind = "headers"
                           /\ Len(w.data) = before[3].data[2][2]

(* C15, as stated: every part is the boundary line, the Content-type line,
   the Content-length line and an empty line, each ended by a line feed,
   then the bytes, with nothing between parts. *)
C15_LineFeedFraming == Framing("\n")

(* C15, amended: every part is the boundary line ended by a line feed, the
   Content-type line, the Content-length line and an empty line, each
   ended by carriage return and line feed, then the bytes, with nothing
   between parts. *)
C15_PartFraming == Framing("\r\n")

\* two whole parts have been written in one session
C15_Witness ==
    Cardinality({ i \in BodyWrites : trace[i][2] = "ok" }) >= 2


----------------------------------------------------------------------------
\* do_GET is at work on, or has finished, a request whose path has no
\* streaming suffix (a streaming session drops its path once it is in
\* streamDirect or streamAlgo)
LandingRequest ==
    /\ pc \notin {"idle", "do_GET"}
    /\ path # <<>>
    /\ ~HasStreamSuffix(path)

\* the header block of the landing page
PageHeaderLines ==
    << <<"status", HttpOk, "\r\n">>,
       <<"Content-type", "text/html", "\r\n">>,
       <<"", "", "\r\n">> >>

(* C16: for a request whose path does not end in .mjpg or .mjpeg the
   handler makes no call but its writes: first the header block with
   status 200 and Content-type text/html, then the landing page; the
   camera is never opened or stopped, there is no sleep, no
   algo.processFrame and no s_comm call; when do_GET returns both writes
   have been made. *)
C16_LandingPage ==
    LandingRequest =>
        /\ \A i \in 1..Len(trace) : trace[i][1] = "wfile.write"
        /\ Len(trace) <= 2
        /\ Len(trace) >= 1 =>
              /\ trace[1][3].kind = "headers"
              /\ trace[1][3].data = PageHeaderLines
        /\ Len(trace) = 2 =>
              /\ trace[1][2] = "ok"
              /\ trace[2][3].kind = "text"
              /\ trace[2][3].data = s_mainPage
        /\ pc = "returned" => Len(trace) = 2 /\ trace[2][2] = "ok"
        /\ cam = "None"
        /\ openHandles = 0

\* /direct.MJPG (upper-case suffix) has been answered with the landing page
C16_Witness ==
    /\ pc = "returned"
    /\ path = <<"/">> \o DIRECT \o <<".", "M", "J", "P", "G">>
    /\ Len(trace) = 2


----------------------------------------------------------------------------
\* the parts written in full
PartsWritten == { i \in BodyWrites : trace[i][2] = "ok" }

\* no two of the calls in S belong to the same iteration: there is a pull
\* between them
OnePerIteration(S, pulls) ==
    \A a \in S, b \in S : a < b => \E n \in pulls : a < n /\ n < b

(* C17: in an Algo session no iteration writes more than one part (one
   boundary, one header block, one body); and when algo.processFrame
   raises on frame k of a stream in which no encode has failed, k-1 parts
   have been written in full, none is written for frame k or later, and
   cam.stop() is called once by the time do_GET is over. *)
C17_PartsPerIteration ==
    AlgoSession =>
        LET writes == Writes
            pulls == Calls("cam.next")
            kind(k) == { i \in writes : trace[i][3].kind = k }
        IN  /\ OnePerIteration(kind("body"), pulls)
            /\ OnePerIteration(kind("text"), pulls)
            /\ OnePerIteration(kind("headers"), pulls)
            /\ \A i \in writes : i > 1 => \E n \in pulls : n < i
            /\ \A i \in CallsWith("algo.processFrame", "raise") :
                  CallsWith("cv2.imencode", "falsy") = {} =>
                     /\ Cardinality({ j \in kind("body") : trace[j][2] = "ok" })
                           = trace[i][3].frame - 1
                     /\ \A j \in writes : j < i
                     /\ Ended => Cardinality(Calls("cam.stop")) = 1

\* the detection raised on the second frame, after one part, and the
\* session is over
C17_Witness ==
    /\ Ended
    /\ \E i \in CallsWith("algo.processFrame", "raise") : trace[i][3].frame = 2
    /\ Cardinality(PartsWritten) = 1
    /\ Cardinality(Calls("cam.stop")) = 1


----------------------------------------------------------------------------
\* do_GET is at work on, or has finished, a request whose path has a
\* streaming suffix
StreamingRequest ==
    /\ pc \notin {"idle", "do_GET"}
    /\ path = <<>> \/ HasStreamSuffix(path)

\* the header block of a streaming response
StreamHeaderLines ==
    << <<"status", HttpOk, "\r\n">>,
       <<"Content-type", "multipart/x-mixed-replace; boundary=--jpgboundary",
         "\r\n">>,
       <<"", "", "\r\n">> >>

(* C18: in a streaming request the first call of the handler is the write
   of the finished header block (status 200, Content-type
   multipart/x-mixed-replace with the boundary, empty line); the grace
   sleep comes second and the opening of the camera third, so both and
   every part come after the headers; when that first write fails nothing
   else is done; and no later header block carries a status line. *)
C18_HeadersFirst ==
    StreamingRequest =>
        /\ pc = "end_headers" => trace = <<>>
        /\ pc # "end_headers" =>
              /\ Len(trace) >= 1
              /\ trace[1][1] = "wfile.write"
              /\ trace[1][3].kind = "headers"
              /\ trace[1][3].data = StreamHeaderLines
              /\ trace[1][2] = "raise" => Len(trace) = 1 /\ pc = "raised"
        /\ Len(trace) >= 2 =>
              trace[2][1] = "time.sleep" /\ trace[2][3] = GraceSeconds
        /\ Len(trace) >= 3 => trace[3][1] = "picam.PiCam"
        /\ \A i \in 2..Len(trace) :
              (trace[i][1] = "wfile.write" /\ trace[i][3].kind = "headers") =>
                  trace[i][3].data[1][1] # "status"

\* an Algo session has written a whole part
C18_Witness ==
    /\ pc = "a_sleep"
    /\ StreamingRequest
    /\ PartsWritten # {}


----------------------------------------------------------------------------
(* C19: once the client of a session is gone, do_GET eventually ends, the
   server is back in serve_forever and no camera handle is left open
   (under LiveSpec: every call returns or raises, and the serving thread
   keeps being scheduled). *)
C19_DisconnectEndsSession ==
    (client = "gone") ~> (pc = "idle" /\ openHandles = 0)


----------------------------------------------------------------------------
\* the pacing sleeps of the frame loop
PaceSleeps == { i \in Calls("time.sleep") : trace[i][3] = PaceMillis }

CommCallees == {"comm.updateVisionState", "comm.UpdateTarget"}

(* C20: in an Algo session every updateVisionState call directly follows a
   successful algo.processFrame; with s_comm configured, every successful
   algo.processFrame is directly followed by the publication and every
   cv2.imencode call is directly preceded by a successful s_comm call; the
   boundary of a part is written right after the successful encode (or
   after the size print that follows it) and the rest of the part right
   after the boundary, so the state of a frame is published before its
   encode and its writes, whatever becomes of them; a pacing sleep
   directly follows the successful write of a body, and a failed encode
   is directly followed by the next pull. *)
C20_PublishThenEncodeThenPace ==
    AlgoSession =>
        \A i \in 2..Len(trace) :
            LET callee == trace[i][1]
                before == trace[i - 1]
                last == i = Len(trace)
            IN  /\ callee = "comm.updateVisionState" =>
                      before[1] = "algo.processFrame" /\ before[2] = "ok"
                /\ (before[1] = "algo.processFrame" /\ before[2] = "ok"
                      /\ s_comm # "None") =>
                      callee = "comm.updateVisionState"
                /\ (callee = "cv2.imencode" /\ s_comm # "None") =>
                      before[1] \in CommCallees /\ before[2] = "ok"
                /\ (callee = "wfile.write" /\ trace[i][3].kind = "text") =>
                      \/ before[1] = "cv2.imencode" /\ before[2] = "ok"
                      \/ /\ before[1] = "print"
                         /\ trace[i - 2][1] = "cv2.imencode"
                         /\ trace[i - 2][2] = "ok"
                /\ (callee = "wfile.write" /\ trace[i][3].kind # "text") =>
                      before[1] = "wfile.write" /\ before[2] = "ok"
                /\ (callee = "time.sleep" /\ trace[i][3] = PaceMillis) =>
                      /\ before[1] = "wfile.write"
                      /\ before[2] = "ok"
                      /\ before[3].kind = "body"
                /\ (before[1] = "cv2.imencode" /\ before[2] = "falsy") =>
                      callee = "cam.next"

\* with s_comm configured, one frame was written and paced and the next
\* one was published and then failed to encode
C20_Witness ==
    /\ s_comm # "None"
    /\ PaceSleeps # {}
    /\ \E i \in CallsWith("cv2.imencode", "falsy") :
          /\ trace[i - 1][1] = "comm.updateVisionState"
          /\ \E j \in PaceSleeps : j < i

====
